---- MODULE Spec2Model ----
(***************************************************************************)
(* Gridlock (src/gridlock.py): the Rect helper, the coordinate mapper and  *)
(* the press / move / release / cancel handlers of the GridLock window,    *)
(* together with the Wnck target window they drive.                        *)
(***************************************************************************)
EXTENDS Integers, Sequences, FiniteSets, TLC

(***************************************************************************)
(* Bounds of the model.                                                    *)
(***************************************************************************)
\* geometry requests a session may issue before pointer moves stop
MaxRequests == 3
\* largest cell index of the rectangles the pure functions are probed with
MaxCell == 2

(***************************************************************************)
(* Python values.                                                          *)
(***************************************************************************)
\* Python's None in an integer field (Rect.__init__ defaults)
None == 0 - 1000

\* int(): truncation toward zero of the rational num / den, den > 0
int(num, den) ==
    IF num >= 0 THEN num \div den ELSE 0 - ((0 - num) \div den)

Abs(k) == IF k >= 0 THEN k ELSE 0 - k

\* A scale (cell_width, cell_height) is the double nearest to num / den;
\* it is carried as the pair it was divided from.
Scale(num, den) == [num |-> num, den |-> den]

\* <<k, num, den>>, k > 0, for which the double product k * (num / den) is
\* rounded to the double just below the integer k * num / den, so that int()
\* of it is one less than the exact quotient (IEEE-754 binary64, round to
\* nearest even). Complete for k <= 12 and den <= 8 with num <= 128, and for
\* den in {1, 2, 4, 8} with num <= 1000, where the division is exact.
FloatProductBelow ==
    { <<7, 61, 7>>, <<7, 115, 7>>, <<7, 122, 7>> }

\* int(k * scale), as Rect.to_cairo computes each component
int_mul(k, scale) ==
    LET exact == int(k * scale.num, scale.den)
    IN  IF <<Abs(k), scale.num, scale.den>> \in FloatProductBelow
        THEN (IF k > 0 THEN exact - 1 ELSE exact + 1)
        ELSE exact

\* <<p, num, den>>, p > 0, for which the double quotient p / (num / den) is
\* rounded to the double just below the integer p * den / num (same range,
\* p <= 2 * num).
FloatQuotientBelow ==
    { <<9, 9, 7>>, <<18, 9, 7>>, <<18, 18, 7>>, <<36, 18, 7>>,
      <<29, 29, 7>>, <<58, 29, 7>>, <<36, 36, 7>>, <<72, 36, 7>>,
      <<58, 58, 7>>, <<116, 58, 7>>, <<65, 65, 7>>, <<130, 65, 7>>,
      <<72, 72, 7>>, <<144, 72, 7>>, <<79, 79, 7>>, <<158, 79, 7>>,
      <<116, 116, 7>>, <<232, 116, 7>>, <<123, 123, 7>>, <<246, 123, 7>> }

\* the pointer's cell rounded to the nearest integer instead of truncated
int_div_nearest(p, scale) ==
    int(2 * p * scale.den + scale.num, 2 * scale.num)

\* int(p / scale), as on_mouse_move computes the pointer's cell
int_div(p, scale) ==
    LET exact == int(p * scale.den, scale.num)
    IN  IF <<Abs(p), scale.num, scale.den>> \in FloatQuotientBelow
        THEN (IF p > 0 THEN exact - 1 ELSE exact + 1)
        ELSE exact

Min(a, b) == IF a <= b THEN a ELSE b
Max(a, b) == IF a >= b THEN a ELSE b

\* tuple(sum(x) for x in zip(a, b)) on two 4-tuples
ZipSum(a, b) == [i \in 1..4 |-> a[i] + b[i]]

(***************************************************************************)
(* class Rect                                                              *)
(***************************************************************************)
Rect(x1, y1, x2, y2) == [x1 |-> x1, y1 |-> y1, x2 |-> x2, y2 |-> y2]

Rect_bool(self) ==
    /\ self.x1 # None
    /\ self.y1 # None
    /\ self.x2 # None
    /\ self.y2 # None

Rect_copy(self) == Rect(self.x1, self.y1, self.x2, self.y2)

Rect_eq(self, other) ==
    <<self.x1, self.y1, self.x2, self.y2>>
        = <<other.x1, other.y1, other.x2, other.y2>>

\* min() and max() of a None raise TypeError
to_cairo_raises(self) == ~Rect_bool(self)

\* to_cairo using the corners as stored, without min() and max()
to_cairo_unnormalized(self, scale_x, scale_y) ==
    << int_mul(self.x1, scale_x),
       int_mul(self.y1, scale_y),
       int_mul(1 + self.x2 - self.x1, scale_x),
       int_mul(1 + self.y2 - self.y1, scale_y) >>

\* to_cairo without the 1 + that makes the far cell part of the box
to_cairo_exclusive(self, scale_x, scale_y) ==
    LET x1 == Min(self.x1, self.x2)
        y1 == Min(self.y1, self.y2)
        x2 == Max(self.x1, self.x2)
        y2 == Max(self.y1, self.y2)
    IN  << int_mul(x1, scale_x),
           int_mul(y1, scale_y),
           int_mul(x2 - x1, scale_x),
           int_mul(y2 - y1, scale_y) >>

to_cairo(self, scale_x, scale_y) ==
    LET x1 == Min(self.x1, self.x2)
        y1 == Min(self.y1, self.y2)
        x2 == Max(self.x1, self.x2)
        y2 == Max(self.y1, self.y2)
    IN  << int_mul(x1, scale_x),
           int_mul(y1, scale_y),
           int_mul(1 + x2 - x1, scale_x),
           int_mul(1 + y2 - y1, scale_y) >>

\* the Rect object after to_cairo returned: the corners it normalises are
\* locals, the fields are not assigned
to_cairo_self(self) == self

(***************************************************************************)
(* The target window (Wnck.Window) as the window manager keeps it: its     *)
(* geometry <<x, y, width, height>>, its two maximize flags and the        *)
(* geometry it returns to on the axes that are maximized.                  *)
(***************************************************************************)
\* geometry of the maximized, undecorated grid window: the area a maximized
\* window covers
GridGeometry == <<3, 24, 5, 3>>

\* g with its x and width taken from h
WithHoriz(g, h) == <<h[1], g[2], h[3], g[4]>>
\* g with its y and height taken from h
WithVert(g, h) == <<g[1], h[2], g[3], h[4]>>

is_maximized_vertically(t) == t.maximized_vert
is_maximized_horizontally(t) == t.maximized_horiz
is_maximized(t) == t.maximized_vert /\ t.maximized_horiz
get_geometry(t) == t.geometry

set_geometry(t, g) ==
    LET s1 == IF t.maximized_horiz THEN t.saved ELSE WithHoriz(t.saved, g)
        s2 == IF t.maximized_vert THEN s1 ELSE WithVert(s1, g)
    IN  [t EXCEPT !.geometry = g, !.saved = s2]

maximize_vertically(t) ==
    IF t.maximized_vert THEN t
    ELSE [t EXCEPT !.maximized_vert = TRUE,
                   !.geometry = WithVert(@, GridGeometry)]

maximize_horizontally(t) ==
    IF t.maximized_horiz THEN t
    ELSE [t EXCEPT !.maximized_horiz = TRUE,
                   !.geometry = WithHoriz(@, GridGeometry)]

maximize(t) == maximize_horizontally(maximize_vertically(t))

unmaximize(t) ==
    [t EXCEPT !.maximized_vert = FALSE,
              !.maximized_horiz = FALSE,
              !.geometry = t.saved]

\* geometry of the target before it was maximized on any axis
NormalGeometry == <<10, 20, 30, 40>>

\* the target windows a session can start on
Targets ==
    { [geometry |-> IF v THEN (IF h THEN GridGeometry
                                    ELSE WithVert(NormalGeometry, GridGeometry))
                         ELSE (IF h THEN WithHoriz(NormalGeometry, GridGeometry)
                                    ELSE NormalGeometry),
       saved |-> NormalGeometry,
       maximized_vert |-> v,
       maximized_horiz |-> h] : v \in BOOLEAN, h \in BOOLEAN }

(***************************************************************************)
(* State                                                                   *)
(***************************************************************************)
VARIABLES
    args,                         \* live_preview, hide_cursor, offset
    cols, rows,                   \* args.grid
    allocation,                   \* self.grid.get_allocation()
    gtk_frame_extents,            \* _GTK_FRAME_EXTENTS of the target, <<>> if unset
    target,                       \* the target window
    target_orig_geometry,
    target_orig_maximized_vert,
    target_orig_maximized_horiz,
    target_orig_maximized,
    drag,
    wnck_window,                  \* "None" or the grid's "Window"
    grid_window_type,             \* window type of the grid window
    cursor_rect,
    last_cursor_rect,
    cursor_visible,               \* self.cursor visibility
    pointer,                      \* where the host has the pointer
    main_loop,                    \* "running" until Gtk.main_quit()
    handled,                      \* the last event and what its handler did
    requests,                     \* set_geometry calls so far
    probe,                        \* inputs of a direct call of the helpers
    result                        \* and what the call returned

machine == << args, cols, rows, allocation, gtk_frame_extents, target,
              target_orig_geometry, target_orig_maximized_vert,
              target_orig_maximized_horiz, target_orig_maximized, drag,
              wnck_window, grid_window_type, cursor_rect, last_cursor_rect,
              cursor_visible, pointer, main_loop, handled, requests >>

vars == << machine, probe, result >>

\* what a handler has done to the target so far
World(t) == [target |-> t, ops |-> <<>>, mapper |-> <<>>, raised |-> ""]

Call(w, name, g, t) ==
    [w EXCEPT !.target = t,
              !.ops = Append(@, [op |-> name, geometry |-> g])]

Raise(w, exception) == [w EXCEPT !.raised = exception]

(***************************************************************************)
(* Coordinate mapper                                                       *)
(***************************************************************************)
\* get_gtk_frame_offset growing the size by the left and top extents only
get_gtk_frame_offset_near_side(prop) ==
    IF prop # <<>>
    THEN << 0 - prop[1], 0 - prop[3], prop[1], prop[3] >>
    ELSE <<0, 0, 0, 0>>

get_gtk_frame_offset(prop) ==
    IF prop # <<>>
    THEN LET left == prop[1]
             right == prop[2]
             top == prop[3]
             bottom == prop[4]
         IN  << 0 - left, 0 - top, left + right, top + bottom >>
    ELSE <<0, 0, 0, 0>>

\* target_geometry adding args.offset to the position only
target_geometry_position_offset(rect, alloc, nc, nr, grid_geometry, offset, prop) ==
    LET box == to_cairo(rect, Scale(alloc.width, nc), Scale(alloc.height, nr))
        geometry0 == << box[1] + grid_geometry[1], box[2] + grid_geometry[2],
                        box[3], box[4] >>
        geometry1 == ZipSum(geometry0, <<offset[1], offset[2], 0, 0>>)
    IN  ZipSum(geometry1, get_gtk_frame_offset(prop))

\* the geometry set_target_geometry_from_cursor passes on, lines 171-184
target_geometry(rect, alloc, nc, nr, grid_geometry, offset, prop) ==
    LET cell_width == Scale(alloc.width, nc)
        cell_height == Scale(alloc.height, nr)
        box == to_cairo(rect, cell_width, cell_height)
        geometry0 == << box[1] + grid_geometry[1], box[2] + grid_geometry[2],
                        box[3], box[4] >>
        geometry1 == ZipSum(geometry0, offset)
        frame_offset == get_gtk_frame_offset(prop)
    IN  ZipSum(geometry1, frame_offset)

set_raw_target_geometry(w, g) ==
    Call(w, "set_geometry", g, set_geometry(w.target, g))

set_target_geometry_from_cursor(w, rect) ==
    LET w1 == IF is_maximized(w.target)
              THEN Call(w, "unmaximize", <<>>, unmaximize(w.target))
              ELSE w
        w2 == [w1 EXCEPT !.mapper = Append(@, rect)]
    IN  IF to_cairo_raises(rect) THEN Raise(w2, "TypeError")
        ELSE IF wnck_window = "None" THEN Raise(w2, "AttributeError")
        ELSE set_raw_target_geometry(w2,
                 target_geometry(rect, allocation, cols, rows, GridGeometry,
                                 args.offset, gtk_frame_extents))

\* restore_target_geometry re-applying the maximize flags before it requests
\* the geometry
restore_target_geometry_flags_first(w) ==
    LET w1 == IF target_orig_maximized_vert
              THEN Call(w, "maximize_vertically", <<>>,
                        maximize_vertically(w.target))
              ELSE w
        w2 == IF target_orig_maximized_horiz
              THEN Call(w1, "maximize_horizontally", <<>>,
                        maximize_horizontally(w1.target))
              ELSE w1
        w3 == IF target_orig_maximized
              THEN Call(w2, "maximize", <<>>, maximize(w2.target))
              ELSE w2
    IN  set_raw_target_geometry(w3, target_orig_geometry)

\* restore_target_geometry without re-applying the maximize flags
restore_target_geometry_only(w) ==
    set_raw_target_geometry(w, target_orig_geometry)

restore_target_geometry(w) ==
    LET w1 == set_raw_target_geometry(w, target_orig_geometry)
        w2 == IF target_orig_maximized_vert
              THEN Call(w1, "maximize_vertically", <<>>,
                        maximize_vertically(w1.target))
              ELSE w1
        w3 == IF target_orig_maximized_horiz
              THEN Call(w2, "maximize_horizontally", <<>>,
                        maximize_horizontally(w2.target))
              ELSE w2
    IN  IF target_orig_maximized
        THEN Call(w3, "maximize", <<>>, maximize(w3.target))
        ELSE w3

\* the rollback done whether or not live preview is enabled
abort_always(w) == restore_target_geometry(w)

\* the rollback of an aborted move-resize (key press or mouse press)
abort(w) ==
    IF args.live_preview THEN restore_target_geometry(w) ELSE w

(***************************************************************************)
(* Sessions                                                                *)
(***************************************************************************)
\* pointer positions the host reports, inside the 5 x 3 content area
PointerXs == {0, 2, 4}
PointerYs == {0, 2}
Buttons == {1, 3}
Keys == {"q", "Escape", "a"}

NoProbe == [op |-> "none"]
NoResult == [op |-> "none"]

Event(type, button, key, x, y) ==
    [type |-> type, button |-> button, key |-> key, x |-> x, y |-> y]

\* the event, whether a drag was in progress when it arrived, the operations
\* its handler performed on the target, the rectangles it ran the mapper on
\* and the exception that ended it
Handled(event, dragging, w) ==
    [event |-> event, dragging |-> dragging, ops |-> w.ops,
     mapper |-> w.mapper, raised |-> w.raised]

CountSetGeometry(ops) ==
    Cardinality({i \in DOMAIN ops : ops[i].op = "set_geometry"})

\* GridLock.__init__ on a target window, with the parsed arguments
MachineInit(previews, hides, offsets, extents, targets) ==
    /\ args \in [live_preview : previews, hide_cursor : hides,
                 offset : offsets]
    /\ cols = 2
    /\ rows = 2
    /\ allocation = [width |-> 5, height |-> 3]
    /\ gtk_frame_extents \in extents
    /\ target \in targets
    /\ target_orig_geometry = get_geometry(target)
    /\ target_orig_maximized_vert = is_maximized_vertically(target)
    /\ target_orig_maximized_horiz = is_maximized_horizontally(target)
    /\ target_orig_maximized = is_maximized(target)
    /\ drag = FALSE
    /\ wnck_window = "None"
    /\ grid_window_type = "NORMAL"
    /\ cursor_rect = Rect(None, None, None, None)
    \* the attribute does not exist before the first press, which assigns
    \* it before anything reads it
    /\ last_cursor_rect = Rect(None, None, None, None)
    /\ cursor_visible = TRUE
    /\ pointer \in PointerXs \X PointerYs
    /\ main_loop = "running"
    /\ handled = Handled(Event("none", 0, "", 0, 0), FALSE, World(target))
    /\ requests = 0

Init ==
    /\ MachineInit(BOOLEAN, BOOLEAN, {<<5, 0 - 3, 0, 10>>},
                   {<<>>, <<1, 2, 3, 4>>}, Targets)
    /\ probe = NoProbe
    /\ result = NoResult

\* what every handler leaves alone
Fixed ==
    UNCHANGED << args, cols, rows, allocation, gtk_frame_extents,
                 target_orig_geometry, target_orig_maximized_vert,
                 target_orig_maximized_horiz, target_orig_maximized,
                 probe, result >>

\* the handler returns (or its exception is reported) with the target as in w
Return(event, w) ==
    /\ target' = w.target
    /\ handled' = Handled(event, drag, w)
    /\ requests' = requests + CountSetGeometry(w.ops)

on_key_press(keyval) ==
    /\ main_loop = "running"
    /\ IF keyval = "q" \/ keyval = "Escape"
       THEN /\ Return(Event("key", 0, keyval, 0, 0),
                      abort(World(target)))
            /\ main_loop' = "quit"
       ELSE /\ Return(Event("key", 0, keyval, 0, 0), World(target))
            /\ UNCHANGED main_loop
    /\ UNCHANGED << drag, wnck_window, grid_window_type, cursor_rect,
                    last_cursor_rect, cursor_visible, pointer >>
    /\ Fixed

on_mouse_press(button) ==
    LET x == pointer[1]
        y == pointer[2]
    IN
    /\ main_loop = "running"
    /\ IF button = 1
       THEN /\ drag' = TRUE
            /\ last_cursor_rect' = Rect_copy(cursor_rect)
            /\ Return(Event("press", button, "", x, y), World(target))
            /\ UNCHANGED main_loop
       ELSE /\ Return(Event("press", button, "", x, y),
                      abort(World(target)))
            /\ main_loop' = "quit"
            /\ UNCHANGED << drag, last_cursor_rect >>
    /\ UNCHANGED << wnck_window, grid_window_type, cursor_rect,
                    cursor_visible, pointer >>
    /\ Fixed

\* on_mouse_release committing on the release of any button
on_mouse_release_any_button(button) ==
    LET x == pointer[1]
        y == pointer[2]
        w == set_target_geometry_from_cursor(World(target), cursor_rect)
    IN
    /\ main_loop = "running"
    /\ drag' = FALSE
    /\ Return(Event("release", button, "", x, y), w)
    /\ main_loop' = IF w.raised = "" THEN "quit" ELSE main_loop
    /\ UNCHANGED << wnck_window, grid_window_type, cursor_rect,
                    last_cursor_rect, cursor_visible, pointer >>
    /\ Fixed

on_mouse_release(button) ==
    LET x == pointer[1]
        y == pointer[2]
    IN
    /\ main_loop = "running"
    /\ IF button = 1
       THEN LET w == set_target_geometry_from_cursor(World(target),
                                                     cursor_rect)
            IN  /\ drag' = FALSE
                /\ Return(Event("release", button, "", x, y), w)
                /\ main_loop' = IF w.raised = "" THEN "quit" ELSE main_loop
       ELSE /\ Return(Event("release", button, "", x, y), World(target))
            /\ UNCHANGED << drag, main_loop >>
    /\ UNCHANGED << wnck_window, grid_window_type, cursor_rect,
                    last_cursor_rect, cursor_visible, pointer >>
    /\ Fixed

\* on_mouse_move moving both corners to the pointer's cell during a drag too
on_mouse_move_anchor_follows(x, y) ==
    LET cell_width == Scale(allocation.width, cols)
        cell_height == Scale(allocation.height, rows)
        cell_x == int_div(x, cell_width)
        cell_y == int_div(y, cell_height)
        dragged == Rect(cell_x, cell_y, cell_x, cell_y)
        preview == args.live_preview
                   /\ ~Rect_eq(last_cursor_rect, dragged)
        w == IF drag /\ preview
             THEN set_target_geometry_from_cursor(World(target), dragged)
             ELSE World(target)
    IN  /\ main_loop = "running"
        /\ requests < MaxRequests
        /\ cursor_rect' = dragged
        /\ cursor_visible' = IF drag /\ args.live_preview /\ args.hide_cursor
                             THEN FALSE ELSE cursor_visible
        /\ last_cursor_rect' = IF drag /\ preview THEN Rect_copy(dragged)
                               ELSE last_cursor_rect
        /\ pointer' = <<x, y>>
        /\ Return(Event("move", 0, "", x, y), w)
        /\ UNCHANGED << drag, wnck_window, grid_window_type, main_loop >>
        /\ Fixed

on_mouse_move(x, y) ==
    LET cell_width == Scale(allocation.width, cols)
        cell_height == Scale(allocation.height, rows)
        cell_x == int_div(x, cell_width)
        cell_y == int_div(y, cell_height)
        dragged == [cursor_rect EXCEPT !.x2 = cell_x, !.y2 = cell_y]
        preview == args.live_preview
                   /\ ~Rect_eq(last_cursor_rect, dragged)
        w == IF drag /\ preview
             THEN set_target_geometry_from_cursor(World(target), dragged)
             ELSE World(target)
    IN  /\ main_loop = "running"
        /\ requests < MaxRequests
        /\ cursor_rect' = IF drag THEN dragged
                          ELSE Rect(cell_x, cell_y, cell_x, cell_y)
        /\ cursor_visible' = IF drag /\ args.live_preview /\ args.hide_cursor
                             THEN FALSE ELSE cursor_visible
        /\ last_cursor_rect' = IF drag /\ preview THEN Rect_copy(dragged)
                               ELSE last_cursor_rect
        /\ pointer' = <<x, y>>
        /\ Return(Event("move", 0, "", x, y), w)
        /\ UNCHANGED << drag, wnck_window, grid_window_type, main_loop >>
        /\ Fixed

\* on_draw_window looking the grid window up on every render pass
on_draw_window_every_pass(lookup) ==
    /\ main_loop = "running"
    /\ wnck_window' = lookup
    /\ grid_window_type' = IF lookup # "None" THEN "UTILITY"
                           ELSE grid_window_type
    /\ Return(Event("draw", 0, "", 0, 0), World(target))
    /\ UNCHANGED << drag, cursor_rect, last_cursor_rect, cursor_visible,
                    pointer, main_loop >>
    /\ Fixed

\* lookup is what Wnck.Window.get(xid) returns for the grid window
on_draw_window(lookup) ==
    /\ main_loop = "running"
    /\ IF wnck_window = "None"
       THEN /\ wnck_window' = lookup
            /\ grid_window_type' = IF lookup # "None" THEN "UTILITY"
                                   ELSE grid_window_type
       ELSE /\ lookup = "Window"
            /\ UNCHANGED << wnck_window, grid_window_type >>
    /\ Return(Event("draw", 0, "", 0, 0), World(target))
    /\ UNCHANGED << drag, cursor_rect, last_cursor_rect, cursor_visible,
                    pointer, main_loop >>
    /\ Fixed

\* the 'destroy' signal is connected to Gtk.main_quit
on_destroy ==
    /\ main_loop = "running"
    /\ main_loop' = "quit"
    /\ Return(Event("destroy", 0, "", 0, 0), World(target))
    /\ UNCHANGED << drag, wnck_window, grid_window_type, cursor_rect,
                    last_cursor_rect, cursor_visible, pointer >>
    /\ Fixed

Next ==
    \/ \E k \in Keys : on_key_press(k)
    \/ \E b \in Buttons : on_mouse_press(b)
    \/ \E b \in Buttons : on_mouse_release(b)
    \/ \E x \in PointerXs, y \in PointerYs : on_mouse_move(x, y)
    \/ \E lookup \in {"None", "Window"} : on_draw_window(lookup)
    \/ on_destroy

Spec == Init /\ [][Next]_vars

(***************************************************************************)
(* Direct calls of Rect.to_cairo and of the mapper's arithmetic            *)
(***************************************************************************)
\* grids and the content areas they are laid over
Layouts ==
    { [cols |-> 4, rows |-> 2, width |-> 800, height |-> 400],
      [cols |-> 2, rows |-> 2, width |-> 5, height |-> 3],
      [cols |-> 3, rows |-> 2, width |-> 100, height |-> 50],
      [cols |-> 1, rows |-> 1, width |-> 5, height |-> 3],
      [cols |-> 7, rows |-> 3, width |-> 61, height |-> 7] }

Cells == (0 - 1) .. MaxCell

ProbeRects(l) ==
    { Rect(a, b, c, d) : a \in Cells, b \in Cells, c \in Cells, d \in Cells }
        \cup { Rect(0, 0, l.cols - 1, l.rows - 1) }

Probes ==
    UNION { [op : {"probe"}, layout : {l}, rect : ProbeRects(l),
             grid_geometry : { <<0, 0, l.width, l.height>>,
                               <<3, 24, l.width, l.height>> },
             offset : { <<0, 0, 0, 0>>, <<5, 0 - 3, 0, 10>> },
             prop : { <<>>, <<1, 2, 3, 4>> },
             delta : { <<1, 0 - 2, 3, 0 - 4>>, <<0, 0, 0, 1>> }]
            : l \in Layouts }

\* pixels of an extent divided into parts: all of them up to 100, above
\* that the first two and the last of every part
Pixels(extent, parts) ==
    IF extent <= 100 THEN 0 .. (extent - 1)
    ELSE { p \in 0 .. (extent - 1) :
             p % (extent \div parts) \in {0, 1, (extent \div parts) - 1} }

\* pointer positions inside the content area
PointerProbes ==
    UNION { [op : {"pointer"}, layout : {l},
             x : Pixels(l.width, l.cols), y : Pixels(l.height, l.rows)]
            : l \in Layouts }

InitFn ==
    /\ MachineInit({FALSE}, {FALSE}, {<<0, 0, 0, 0>>}, {<<>>},
                   {t \in Targets : ~t.maximized_vert /\ ~t.maximized_horiz})
    /\ pointer = <<0, 0>>
    /\ probe \in Probes \cup PointerProbes
    /\ result = NoResult

call_to_cairo ==
    LET l == probe.layout
        r == probe.rect
        cell_width == Scale(l.width, l.cols)
        cell_height == Scale(l.height, l.rows)
    IN  /\ probe.op = "probe"
        /\ result' = [op |-> "to_cairo",
                      box |-> to_cairo(r, cell_width, cell_height),
                      swapped |-> to_cairo(Rect(r.x2, r.y2, r.x1, r.y1),
                                           cell_width, cell_height),
                      self |-> to_cairo_self(r)]
        /\ UNCHANGED << machine, probe >>

Geometry(offset) ==
    LET l == probe.layout
    IN  target_geometry(probe.rect, [width |-> l.width, height |-> l.height],
                        l.cols, l.rows, probe.grid_geometry, offset,
                        probe.prop)

call_target_geometry ==
    /\ probe.op = "probe"
    /\ result' = [op |-> "target_geometry",
                  geometry |-> Geometry(probe.offset)]
    /\ UNCHANGED << machine, probe >>

call_target_geometry_shifted ==
    /\ probe.op = "probe"
    /\ result' = [op |-> "shifted",
                  geometry |-> Geometry(probe.offset),
                  shifted |-> Geometry(ZipSum(probe.offset, probe.delta))]
    /\ UNCHANGED << machine, probe >>

\* the box of the probed rectangle, of the column to its right and of the
\* row below it
call_to_cairo_adjacent ==
    LET l == probe.layout
        r == probe.rect
        cell_width == Scale(l.width, l.cols)
        cell_height == Scale(l.height, l.rows)
        next_col == 1 + Max(r.x1, r.x2)
        next_row == 1 + Max(r.y1, r.y2)
    IN  /\ probe.op = "probe"
        /\ result' = [op |-> "adjacent",
                      box |-> to_cairo(r, cell_width, cell_height),
                      right |-> to_cairo(Rect(next_col, r.y1, next_col, r.y2),
                                         cell_width, cell_height),
                      below |-> to_cairo(Rect(r.x1, next_row, r.x2, next_row),
                                         cell_width, cell_height)]
        /\ UNCHANGED << machine, probe >>

\* the cell on_mouse_move computes for a pointer position
call_pointer_cell ==
    LET l == probe.layout
        cell_width == Scale(l.width, l.cols)
        cell_height == Scale(l.height, l.rows)
    IN  /\ probe.op = "pointer"
        /\ result' = [op |-> "cell",
                      cell_x |-> int_div(probe.x, cell_width),
                      cell_y |-> int_div(probe.y, cell_height)]
        /\ UNCHANGED << machine, probe >>

NextFn ==
    \/ call_to_cairo
    \/ call_target_geometry
    \/ call_target_geometry_shifted
    \/ call_to_cairo_adjacent
    \/ call_pointer_cell

SpecFn == InitFn /\ [][NextFn]_vars

(***************************************************************************)
(* Properties                                                              *)
(***************************************************************************)
PrimaryPress == handled.event.type = "press" /\ handled.event.button = 1
OtherPress == handled.event.type = "press" /\ handled.event.button # 1
PrimaryRelease == handled.event.type = "release" /\ handled.event.button = 1
AbortKey == handled.event.type = "key" /\ handled.event.key \in {"q", "Escape"}
Cancelled == AbortKey \/ OtherPress

SetGeometryOps == {i \in DOMAIN handled.ops : handled.ops[i].op = "set_geometry"}

\* C1: with live preview enabled, after a cancel (abort key or non-primary
\* press) the target has the geometry of the snapshot taken at session start
\* and its maximize flags are those of the snapshot.
C1_CancelRestoresSnapshot ==
    (args.live_preview /\ Cancelled) =>
        /\ get_geometry(target) = target_orig_geometry
        /\ is_maximized_vertically(target) = target_orig_maximized_vert
        /\ is_maximized_horizontally(target) = target_orig_maximized_horiz
        /\ is_maximized(target) = target_orig_maximized

\* a cancel after at least one preview request, on a target that was maximized
C1_Witness ==
    /\ args.live_preview
    /\ Cancelled
    /\ handled.dragging
    /\ requests >= 2
    /\ target_orig_maximized

\* C2: a non-primary press while no drag is in progress ends the session
\* and set_geometry has not been called in the session, with or without
\* live preview.
C2_OtherPressIdleNeverSetsGeometry ==
    (OtherPress /\ ~handled.dragging) =>
        (main_loop = "quit" /\ requests = 0)

\* C3: the mapper only ever runs on a cursor_rect with all four fields set.
C3_MapperRectValid ==
    \A i \in DOMAIN handled.mapper : Rect_bool(handled.mapper[i])

C5_ReleaseCommits ==
    (PrimaryRelease /\ handled.dragging) =>
        /\ handled.mapper = << cursor_rect >>
        /\ Rect_bool(cursor_rect)
        /\ Cardinality(SetGeometryOps) = 1
        /\ \A i \in SetGeometryOps :
               handled.ops[i].geometry
                   = target_geometry(cursor_rect, allocation, cols, rows,
                                     GridGeometry, args.offset,
                                     gtk_frame_extents)
        /\ main_loop = "quit"

FrameExtents(prop) == IF prop = <<>> THEN <<0, 0, 0, 0>> ELSE prop

\* the closed form of the mapper's geometry for the probed inputs
ClosedForm ==
    LET l == probe.layout
        p == to_cairo(probe.rect, Scale(l.width, l.cols),
                      Scale(l.height, l.rows))
        g == probe.grid_geometry
        o == probe.offset
        e == FrameExtents(probe.prop)
    IN  << p[1] + g[1] + o[1] - e[1],
           p[2] + g[2] + o[2] - e[3],
           p[3] + o[3] + e[1] + e[2],
           p[4] + o[4] + e[3] + e[4] >>

\* a 4 x 2 grid over 800 x 400, anchor (1, 0) dragged to (2, 1), origin
\* (0, 0), no offset and no frame extents
Example4x2 ==
    /\ probe.layout = [cols |-> 4, rows |-> 2, width |-> 800, height |-> 400]
    /\ probe.rect = Rect(1, 0, 2, 1)
    /\ probe.grid_geometry[1] = 0
    /\ probe.grid_geometry[2] = 0
    /\ probe.offset = <<0, 0, 0, 0>>
    /\ probe.prop = <<>>

\* C6 as stated: the mapper's geometry is (px + gx + ox - left,
\* py + gy + oy - top, pw + ow + left + right, ph + oh + top + bottom) for
\* the pixel box (px, py, pw, ph) of the rectangle, and the 4 x 2 example
\* gives (200, 0, 400, 200).
C6_MapperFormulaAsStated ==
    result.op = "target_geometry" =>
        /\ result.geometry = ClosedForm
        /\ Example4x2 => result.geometry = <<200, 0, 400, 200>>

\* C6 amended: the same closed form, and the 4 x 2 example, whose cells are
\* 200 x 200, gives (200, 0, 400, 400).
C6_MapperFormula ==
    result.op = "target_geometry" =>
        /\ result.geometry = ClosedForm
        /\ Example4x2 => result.geometry = <<200, 0, 400, 400>>

\* the mapper applied with an offset, frame extents and a grid origin
C6_Witness ==
    /\ result.op = "target_geometry"
    /\ probe.prop = <<1, 2, 3, 4>>
    /\ probe.offset = <<5, 0 - 3, 0, 10>>
    /\ probe.grid_geometry[1] = 3
    /\ probe.rect = Rect(2, 1, 1, 0)
    /\ probe.layout.cols = 4

\* C7: with rectangle, cell size, grid origin and frame extents fixed,
\* changing the offset by (dx, dy, dw, dh) changes the mapper's geometry by
\* (dx, dy, dw, dh), component by component.
C7_OffsetAdditive ==
    result.op = "shifted" =>
        result.shifted = ZipSum(result.geometry, probe.delta)

C7_Witness ==
    /\ result.op = "shifted"
    /\ probe.delta = <<1, 0 - 2, 3, 0 - 4>>
    /\ probe.prop # <<>>
    /\ probe.rect.x1 > probe.rect.x2

\* C8: to_cairo gives the same box for a rectangle and for the rectangle
\* with its two corners exchanged, and leaves the stored corners as they
\* were.
C8_CornerOrderIndependent ==
    result.op = "to_cairo" =>
        /\ result.box = result.swapped
        /\ result.self = probe.rect

C8_Witness ==
    /\ result.op = "to_cairo"
    /\ probe.rect.x1 > probe.rect.x2
    /\ probe.rect.y1 < probe.rect.y2
    /\ probe.layout.width % probe.layout.cols # 0

SingleCell(r) == r.x1 = r.x2 /\ r.y1 = r.y2

\* C9 as stated: the box of a single-cell selection is exactly one cell
\* wide and high, the cell being content width / columns by content
\* height / rows.
C9_SingleCellExactlyOneCell ==
    (result.op = "to_cairo" /\ SingleCell(probe.rect)) =>
        /\ result.box[3] * probe.layout.cols = probe.layout.width
        /\ result.box[4] * probe.layout.rows = probe.layout.height

\* C9 amended: the box of a single-cell selection has the cell width and
\* the cell height truncated to integers, which are the cell's exact size
\* where the columns divide the content width and the rows its height.
C9_SingleCellTruncatedCell ==
    (result.op = "to_cairo" /\ SingleCell(probe.rect)) =>
        LET l == probe.layout
        IN  /\ result.box[3] = l.width \div l.cols
            /\ result.box[4] = l.height \div l.rows
            /\ l.width % l.cols = 0 => result.box[3] * l.cols = l.width
            /\ l.height % l.rows = 0 => result.box[4] * l.rows = l.height

\* a single cell of a grid that does not divide its content area
C9_Witness ==
    /\ result.op = "to_cairo"
    /\ SingleCell(probe.rect)
    /\ probe.rect.x1 = 1
    /\ probe.layout.width % probe.layout.cols # 0
    /\ probe.layout.height % probe.layout.rows # 0

\* C10: after a primary press that arrived while no drag was in progress
\* the drag flag is set and cursor_rect is the single cell under the
\* pointer.
C10_PressAnchorsAtPointer ==
    (PrimaryPress /\ ~handled.dragging) =>
        LET cx == int_div(handled.event.x, Scale(allocation.width, cols))
            cy == int_div(handled.event.y, Scale(allocation.height, rows))
        IN  /\ drag
            /\ cursor_rect = Rect(cx, cy, cx, cy)

\* C11: a primary release that arrives during a drag, an abort key and a
\* non-primary press each end the session in the handler of the event.
C11_TerminalTriggersQuit ==
    ((PrimaryRelease /\ handled.dragging) \/ Cancelled) =>
        main_loop = "quit"

PointerMove == handled.event.type = "move"

\* C12: with live preview enabled a pointer move during a drag issues a
\* geometry request exactly if the rectangle it gives differs from the last
\* committed one, and the last committed rectangle is cursor_rect after it.
C12_PreviewRequestIffChanged ==
    [][ (drag /\ args.live_preview /\ PointerMove') =>
            /\ (requests' = requests + 1)
                   <=> ~Rect_eq(last_cursor_rect, cursor_rect')
            /\ (requests' = requests)
                   <=> Rect_eq(last_cursor_rect, cursor_rect')
            /\ Rect_eq(last_cursor_rect', cursor_rect') ]_vars

OpNames == [i \in DOMAIN handled.ops |-> handled.ops[i].op]

\* the operations of a rollback, in order, for the flags of the snapshot
RollbackOps ==
    << "set_geometry" >>
        \o (IF target_orig_maximized_vert
            THEN << "maximize_vertically" >> ELSE << >>)
        \o (IF target_orig_maximized_horiz
            THEN << "maximize_horizontally" >> ELSE << >>)
        \o (IF target_orig_maximized THEN << "maximize" >> ELSE << >>)

\* C13: on a cancel with live preview enabled the handler requests the
\* snapshot's geometry first and then maximizes vertically, horizontally
\* and fully, each only if the snapshot has the flag, in that order.
C13_RollbackOrder ==
    (args.live_preview /\ Cancelled) =>
        /\ OpNames = RollbackOps
        /\ handled.ops[1].geometry = target_orig_geometry

\* a rollback on a target that was maximized on both axes
C13_Witness ==
    /\ args.live_preview
    /\ Cancelled
    /\ target_orig_maximized
    /\ Len(handled.ops) = 4

\* the cell of the pointer position of the last event
EventCellX == int_div(handled.event.x, Scale(allocation.width, cols))
EventCellY == int_div(handled.event.y, Scale(allocation.height, rows))

\* C14: a pointer move during a drag sets cursor_rect.x2 and cursor_rect.y2
\* to the pointer's cell and leaves cursor_rect.x1, cursor_rect.y1, the drag
\* flag and the snapshot of the target as they were.
C14_DragMoveKeepsAnchor ==
    [][ (drag /\ PointerMove') =>
            /\ cursor_rect'.x1 = cursor_rect.x1
            /\ cursor_rect'.y1 = cursor_rect.y1
            /\ cursor_rect'.x2 = EventCellX'
            /\ cursor_rect'.y2 = EventCellY'
            /\ drag' = drag
            /\ UNCHANGED << target_orig_geometry, target_orig_maximized_vert,
                            target_orig_maximized_horiz,
                            target_orig_maximized >> ]_vars

\* a move during a drag that took the second corner away from the anchor
C14_Witness ==
    /\ PointerMove
    /\ handled.dragging
    /\ Rect_bool(cursor_rect)
    /\ cursor_rect.x1 # cursor_rect.x2
    /\ cursor_rect.y1 # cursor_rect.y2

\* C15: a pointer move while no drag is in progress makes cursor_rect the
\* single cell under the pointer, starts no drag and issues no operation on
\* the target; whenever no drag is in progress cursor_rect is empty or a
\* single cell.
C15_IdleRectSingleCell ==
    /\ (PointerMove /\ ~handled.dragging) =>
           /\ cursor_rect = Rect(EventCellX, EventCellY, EventCellX, EventCellY)
           /\ ~drag
           /\ handled.ops = <<>>
    /\ ~drag => (~Rect_bool(cursor_rect) \/ SingleCell(cursor_rect))

RenderPass == handled.event.type = "draw"

\* C16: a render pass changes nothing of the session but the grid window's
\* handle: a pass whose lookup fails leaves the handle unresolved and the
\* main loop running, so that the next pass looks it up again, and a
\* resolved handle is kept by every later step.
C16_LookupRetried ==
    [][ /\ RenderPass' =>
            /\ UNCHANGED << drag, cursor_rect, last_cursor_rect, target,
                            requests, main_loop >>
            /\ handled'.ops = <<>>
            /\ handled'.raised = ""
            /\ wnck_window' # wnck_window =>
                   (wnck_window = "None" /\ wnck_window' = "Window")
        /\ wnck_window = "Window" => wnck_window' = "Window"
        /\ (wnck_window' = "Window") <=> (grid_window_type' = "UTILITY")
      ]_vars

\* a render pass during a drag whose lookup failed
C16_Witness ==
    /\ RenderPass
    /\ wnck_window = "None"
    /\ main_loop = "running"
    /\ drag
    /\ Rect_bool(cursor_rect)

UnmaximizeOps == {i \in DOMAIN handled.ops : handled.ops[i].op = "unmaximize"}

\* C17: whenever the mapper runs the grid window's handle is resolved, and
\* a handler that unmaximized the target also requested a geometry.
C17_MapperHasGridWindow ==
    /\ handled.mapper # <<>> => wnck_window = "Window"
    /\ UnmaximizeOps # {} => SetGeometryOps # {}

\* C18: a commit happens only from a drag: a primary release that arrives
\* while no drag is in progress issues no geometry request and leaves the
\* main loop running.
C18_CommitOnlyFromDrag ==
    (PrimaryRelease /\ ~handled.dragging) =>
        /\ SetGeometryOps = {}
        /\ main_loop = "running"

\* all four corners of r are cells of the grid of layout l
InGrid(r, l) ==
    /\ r.x1 \in 0 .. (l.cols - 1)
    /\ r.x2 \in 0 .. (l.cols - 1)
    /\ r.y1 \in 0 .. (l.rows - 1)
    /\ r.y2 \in 0 .. (l.rows - 1)

\* C19: the cell of a pointer position inside the content area is a cell
\* of the grid, and the pixel box of a rectangle of grid cells lies inside
\* the content area.
C19_CellsAndBoxInside ==
    /\ result.op = "cell" =>
           /\ result.cell_x \in 0 .. (probe.layout.cols - 1)
           /\ result.cell_y \in 0 .. (probe.layout.rows - 1)
    /\ (result.op = "to_cairo" /\ InGrid(probe.rect, probe.layout)) =>
           /\ result.box[1] >= 0
           /\ result.box[2] >= 0
           /\ result.box[1] + result.box[3] <= probe.layout.width
           /\ result.box[2] + result.box[4] <= probe.layout.height

\* the last pixel of a content area that its grid does not divide
C19_Witness ==
    /\ result.op = "cell"
    /\ probe.x = probe.layout.width - 1
    /\ probe.y = probe.layout.height - 1
    /\ probe.layout.width % probe.layout.cols # 0
    /\ result.cell_x = probe.layout.cols - 1
    /\ result.cell_x > 0

\* pixels between the right edge of the probed box and the left edge of the
\* next column, or the content width after the last column
GapRight ==
    LET l == probe.layout
        next == IF Max(probe.rect.x1, probe.rect.x2) + 1 < l.cols
                THEN result.right[1] ELSE l.width
    IN  next - (result.box[1] + result.box[3])

\* the same downwards
GapBelow ==
    LET l == probe.layout
        next == IF Max(probe.rect.y1, probe.rect.y2) + 1 < l.rows
                THEN result.below[2] ELSE l.height
    IN  next - (result.box[2] + result.box[4])

\* C20 as stated: the right edge of the box of columns a..b is the left edge
\* of column b + 1, or the content width after the last column, and
\* likewise for rows.
C20_TilesWithoutGaps ==
    (result.op = "adjacent" /\ InGrid(probe.rect, probe.layout)) =>
        /\ GapRight = 0
        /\ GapBelow = 0

\* C20 amended: the edges coincide where the columns divide the content
\* width and the rows the content height; otherwise the box ends at most
\* two pixels before and at most one pixel after the next column or row, or
\* the content edge.
C20_TilesWhereDivisible ==
    (result.op = "adjacent" /\ InGrid(probe.rect, probe.layout)) =>
        LET l == probe.layout
        IN  /\ l.width % l.cols = 0 => GapRight = 0
            /\ l.height % l.rows = 0 => GapBelow = 0
            /\ GapRight \in (0 - 1) .. 2
            /\ GapBelow \in (0 - 1) .. 2

\* two columns of a grid that divides its content area, with a column to
\* their right
C20_Witness ==
    /\ result.op = "adjacent"
    /\ InGrid(probe.rect, probe.layout)
    /\ probe.layout.width % probe.layout.cols = 0
    /\ probe.layout.cols = 4
    /\ probe.rect.x1 = 2
    /\ probe.rect.x2 = 1
    /\ result.right[1] = 600

\* a key press other than q or Escape
OtherKey == handled.event.type = "key" /\ ~AbortKey
\* a release of a button other than the primary one
OtherRelease == handled.event.type = "release" /\ handled.event.button # 1

\* C21: a key press other than Escape or q, and a release of a non-primary
\* button, leave the drag flag, cursor_rect and last_cursor_rect unchanged,
\* perform no operation on the target (no geometry, maximize or unmaximize
\* request, so the target stays as it was), raise nothing and leave the main
\* loop running.
C21_OtherEventsNoEffect ==
    [][ (OtherKey' \/ OtherRelease') =>
            /\ UNCHANGED << drag, cursor_rect, last_cursor_rect, target,
                            requests, main_loop >>
            /\ handled'.ops = <<>>
            /\ handled'.mapper = <<>>
            /\ handled'.raised = ""
            /\ main_loop' = "running" ]_vars

\* a release of button 3 during a drag over two columns and two rows of a
\* maximized target, which stays maximized
C21_Witness ==
    /\ OtherRelease
    /\ handled.dragging
    /\ drag
    /\ Rect_bool(cursor_rect)
    /\ cursor_rect.x1 # cursor_rect.x2
    /\ cursor_rect.y1 # cursor_rect.y2
    /\ wnck_window = "Window"
    /\ is_maximized(target)
    /\ main_loop = "running"

====
